---- MODULE Spec2Model ----
(***************************************************************************)
(* notty: the key encoder (datatypes/key.rs) and the terminal session      *)
(* (terminal/mod.rs): input dispatch and the active/saved screen buffers.  *)
(*                                                                         *)
(* Strings are sequences of bytes (0..255); a char is its code point.      *)
(***************************************************************************)
EXTENDS Integers, Sequences, FiniteSets, TLC

VARIABLES
    \* ---- Terminal (terminal/mod.rs:39-46)
    width, height,      \* pub width / pub height
    active,             \* the active CharGrid
    inactive,           \* Vec<CharGrid>, last element = top of the stack
    mode,               \* the InputMode held by the transport (tty)
    \* ---- observation of the session's buffer operations
    lastOp, prevOp,     \* the last two buffer operations that ran
    pre,                \* the session as it was before the last operation
    nOps,               \* buffer operations so far
    pushedDims,         \* for every saved grid, its dimensions when pushed
    \* ---- observation of send_input
    lastEvent,          \* the arguments of the last send_input call
    lastWrites,         \* the tty.write calls that call made, in order
    lastAsked,          \* whether that call invoked Tooltip::interact
    lastResult,         \* the io::Result that call returned
    nEvents, nWrites,   \* send_input calls / tty.write calls so far
    fault,              \* "none", or the panic that aborted the program
    \* ---- one evaluation of Key::as_code
    in_key, in_mode, in_mods, out

vars == <<width, height, active, inactive, mode, lastOp, prevOp, pre, nOps, pushedDims,
          lastEvent, lastWrites, lastAsked, lastResult, nEvents, nWrites, fault,
          in_key, in_mode, in_mods, out>>

termVars   == <<width, height, active, inactive, lastOp, prevOp, pre, nOps, pushedDims>>
inputVars  == <<mode, lastEvent, lastWrites, lastAsked, lastResult, nEvents, nWrites, fault>>
encodeVars == <<in_key, in_mode, in_mods, out>>

----------------------------------------------------------------------------
(* Bounds *)

\* largest code point of a printable-character key
MaxChar == 130
\* largest number of columns / rows
MaxDim == 2
\* number of buffer operations in one run
MaxOps == 5
\* number of send_input calls in one run
MaxEvents == 2
\* number of entries of a menu
MaxMenu == 2

----------------------------------------------------------------------------
(* datatypes/key.rs *)

ESC == 27

InputMode == {"Ansi", "Application", "Extended"}

SimpleKinds ==
    {"Up", "Down", "Left", "Right",
     "ShiftLeft", "ShiftRight", "CtrlLeft", "CtrlRight", "AltLeft", "AltRight",
     "MetaLeft", "MetaRight", "PageUp", "PageDown", "Home", "End",
     "Insert", "Delete", "CapsLock", "NumLock", "ScrollLock"}

BareModifiers ==
    {"ShiftLeft", "ShiftRight", "CtrlLeft", "CtrlRight", "AltLeft", "AltRight", "CapsLock"}

\* enum Key: the bool of a variant is `press`, `c` the char of Char or the
\* number of Function, `s` the string of Cmd.
MkKey(kind, press, c, s) == [kind |-> kind, press |-> press, c |-> c, s |-> s]

\* strings a Cmd can carry
CmdStrings == {<<>>, <<ESC, 91, 48, 126>>, <<109, 48>>}

Key ==
    {MkKey("Char", p, c, <<>>) : p \in BOOLEAN, c \in 0..MaxChar}
    \cup {MkKey(k, p, 0, <<>>) : k \in SimpleKinds, p \in BOOLEAN}
    \cup {MkKey("Function", p, 1, <<>>) : p \in BOOLEAN}
    \cup {MkKey("Cmd", TRUE, 0, s) : s \in CmdStrings}

Modifiers == [shift : BOOLEAN, caps : BOOLEAN, ctrl : BOOLEAN, alt : BOOLEAN]

Modifiers_new == [shift |-> FALSE, caps |-> FALSE, ctrl |-> FALSE, alt |-> FALSE]

triplet_shift_only(m) == <<m.shift, m.ctrl, m.alt>>

triplet(m) == <<m.shift \/ m.caps, m.ctrl, m.alt>>

\* Option<String>, and the two panics of compatible_code / extended_code
Some(bytes)   == [tag |-> "Some", bytes |-> bytes]
None          == [tag |-> "None", bytes |-> <<>>]
Unreachable   == [tag |-> "unreachable", bytes |-> <<>>]
Unimplemented == [tag |-> "unimplemented", bytes |-> <<>>]
Pending       == [tag |-> "pending", bytes |-> <<>>]

\* char::to_string / format!("{}", c): the UTF-8 encoding of code point c
Utf8(c) ==
    IF c < 128 THEN <<c>>
    ELSE IF c < 2048 THEN <<192 + (c \div 64), 128 + (c % 64)>>
    ELSE IF c < 65536 THEN <<224 + (c \div 4096), 128 + ((c \div 64) % 64), 128 + (c % 64)>>
    ELSE <<240 + (c \div 262144), 128 + ((c \div 4096) % 64),
           128 + ((c \div 64) % 64), 128 + (c % 64)>>

\* ((c as u8) & 0b00011111) as char
CtrlCode(c) == (c % 256) % 32

char_key_mask_3f(modifiers, c) ==
    CASE ~modifiers.ctrl /\ ~modifiers.alt -> Some(Utf8(c))
      [] modifiers.ctrl /\ ~modifiers.alt  ->
            IF c >= 64 /\ c <= 127 THEN Some(Utf8((c % 256) % 64)) ELSE None
      [] ~modifiers.ctrl /\ modifiers.alt  -> Some(<<ESC>> \o Utf8(c))
      [] modifiers.ctrl /\ modifiers.alt   ->
            IF c >= 64 /\ c <= 127 THEN Some(<<ESC>> \o Utf8((c % 256) % 64)) ELSE None

\* the pattern '\x40'...'\x7f' is an inclusive range: 64 <= c <= 127
char_key(modifiers, c) ==
    CASE ~modifiers.ctrl /\ ~modifiers.alt -> Some(Utf8(c))
      [] modifiers.ctrl /\ ~modifiers.alt  ->
            IF c >= 64 /\ c <= 127 THEN Some(Utf8(CtrlCode(c))) ELSE None
      [] ~modifiers.ctrl /\ modifiers.alt  -> Some(<<ESC>> \o Utf8(c))
      [] modifiers.ctrl /\ modifiers.alt   ->
            IF c >= 64 /\ c <= 127 THEN Some(<<ESC>> \o Utf8(CtrlCode(c))) ELSE None

term_key_8bit_ss3(modifiers, term, ansi) ==
    LET t == triplet(modifiers) IN
    CASE t = <<FALSE, FALSE, FALSE>> /\ ansi  -> Some(<<ESC, 91, term>>)
      [] t = <<FALSE, FALSE, FALSE>> /\ ~ansi -> Some(<<143, term>>)
      [] t = <<TRUE,  FALSE, FALSE>>          -> Some(<<ESC, 91, 49, 59, 50, term>>)
      [] t = <<FALSE, FALSE, TRUE>>           -> Some(<<ESC, 91, 49, 59, 51, term>>)
      [] t = <<TRUE,  FALSE, TRUE>>           -> Some(<<ESC, 91, 49, 59, 52, term>>)
      [] t = <<FALSE, TRUE,  FALSE>>          -> Some(<<ESC, 91, 49, 59, 53, term>>)
      [] t = <<TRUE,  TRUE,  FALSE>>          -> Some(<<ESC, 91, 49, 59, 54, term>>)
      [] t = <<FALSE, TRUE,  TRUE>>           -> Some(<<ESC, 91, 49, 59, 55, term>>)
      [] t = <<TRUE,  TRUE,  TRUE>>           -> Some(<<ESC, 91, 49, 59, 56, term>>)

term_key(modifiers, term, ansi) ==
    LET t == triplet(modifiers) IN
    CASE t = <<FALSE, FALSE, FALSE>> /\ ansi  -> Some(<<ESC, 91, term>>)
      [] t = <<FALSE, FALSE, FALSE>> /\ ~ansi -> Some(<<ESC, 79, term>>)
      [] t = <<TRUE,  FALSE, FALSE>>          -> Some(<<ESC, 91, 49, 59, 50, term>>)
      [] t = <<FALSE, FALSE, TRUE>>           -> Some(<<ESC, 91, 49, 59, 51, term>>)
      [] t = <<TRUE,  FALSE, TRUE>>           -> Some(<<ESC, 91, 49, 59, 52, term>>)
      [] t = <<FALSE, TRUE,  FALSE>>          -> Some(<<ESC, 91, 49, 59, 53, term>>)
      [] t = <<TRUE,  TRUE,  FALSE>>          -> Some(<<ESC, 91, 49, 59, 54, term>>)
      [] t = <<FALSE, TRUE,  TRUE>>           -> Some(<<ESC, 91, 49, 59, 55, term>>)
      [] t = <<TRUE,  TRUE,  TRUE>>           -> Some(<<ESC, 91, 49, 59, 56, term>>)

tilde_key(modifiers, init) ==
    LET t == triplet(modifiers) IN
    CASE t = <<FALSE, FALSE, FALSE>> -> Some(<<ESC, 91, init, 126>>)
      [] t = <<TRUE,  FALSE, FALSE>> -> Some(<<ESC, 91, init, 59, 50, 126>>)
      [] t = <<FALSE, FALSE, TRUE>>  -> Some(<<ESC, 91, init, 59, 51, 126>>)
      [] t = <<TRUE,  FALSE, TRUE>>  -> Some(<<ESC, 91, init, 59, 52, 126>>)
      [] t = <<FALSE, TRUE,  FALSE>> -> Some(<<ESC, 91, init, 59, 53, 126>>)
      [] t = <<TRUE,  TRUE,  FALSE>> -> Some(<<ESC, 91, init, 59, 54, 126>>)
      [] t = <<FALSE, TRUE,  TRUE>>  -> Some(<<ESC, 91, init, 59, 55, 126>>)
      [] t = <<TRUE,  TRUE,  TRUE>>  -> Some(<<ESC, 91, init, 59, 56, 126>>)

compatible_code(key, modifiers, ansi) ==
    CASE key.kind = "Char" /\ key.press                  -> char_key(modifiers, key.c)
      [] key.kind = "Cmd"                                -> Some(key.s)
      [] key.kind = "Up" /\ key.press                    -> term_key(modifiers, 65, ansi)
      [] key.kind = "Down" /\ key.press                  -> term_key(modifiers, 66, ansi)
      [] key.kind = "Left" /\ key.press                  -> term_key(modifiers, 68, ansi)
      [] key.kind = "Right" /\ key.press                 -> term_key(modifiers, 67, ansi)
      [] key.kind \in BareModifiers                      -> Unreachable
      [] key.kind \in {"MetaLeft", "MetaRight"} /\ key.press -> None
      [] key.kind = "PageUp" /\ key.press                -> tilde_key(modifiers, 53)
      [] key.kind = "PageDown" /\ key.press              -> tilde_key(modifiers, 54)
      [] key.kind = "Home" /\ key.press                  -> term_key(modifiers, 72, TRUE)
      [] key.kind = "End" /\ key.press                   -> term_key(modifiers, 70, TRUE)
      [] key.kind = "Insert" /\ key.press                -> tilde_key(modifiers, 50)
      [] key.kind = "Delete" /\ key.press                -> tilde_key(modifiers, 51)
      [] key.kind \in {"NumLock", "ScrollLock", "Function"} -> Unimplemented
      [] OTHER                                           -> None

extended_code(key, modifiers) == Unimplemented

as_code(key, m, modifiers) ==
    CASE m = "Ansi"        -> compatible_code(key, modifiers, TRUE)
      [] m = "Application" -> compatible_code(key, modifiers, FALSE)
      [] m = "Extended"    -> extended_code(key, modifiers)

----------------------------------------------------------------------------
(* terminal/mod.rs: send_input *)

\* a key as send_input receives it: the press flag is a separate argument
InKey(kind, n) == [kind |-> kind, n |-> n]

MenuSelection(n) == InKey("MenuSelection", n)

SpecialKinds == {"DownArrow", "UpArrow", "Enter"}

InputKeys ==
    {InKey(k, 0) : k \in SpecialKinds \cup (SimpleKinds \ {"Up", "Down"})}
    \cup {InKey("Char", 97), InKey("Function", 1)}

\* what tooltip_at_mut(cursor) finds: nothing, a Tooltip::Menu, another Tooltip
Tooltips == {"None", "Menu", "Other"}

\* Result<usize, bool> of Tooltip::interact
Ok(n)  == [tag |-> "Ok", n |-> n, b |-> FALSE]
Err(b) == [tag |-> "Err", n |-> 0, b |-> b]

InteractResults == {Ok(n) : n \in 0..(MaxMenu - 1)} \cup {Err(TRUE), Err(FALSE)}

Write(key, press) == [key |-> key, press |-> press]

\* The tty.write calls send_input makes, whether it called interact, and
\* whether it returns the result of a write ("write") or Ok(()) itself.
\* `tooltip` is what is at the cursor, `ir` what interact answers if called.
send_input_forward_too(key, press, tooltip, ir) ==
    IF key.kind \in SpecialKinds /\ press
    THEN LET r == IF tooltip = "Menu" THEN ir ELSE Err(TRUE) IN
         [asked  |-> tooltip = "Menu",
          writes |-> CASE r.tag = "Ok" -> <<Write(MenuSelection(r.n), TRUE), Write(key, press)>>
                       [] r = Err(TRUE)  -> <<Write(key, press)>>
                       [] r = Err(FALSE) -> <<>>,
          ret    |-> IF r = Err(FALSE) THEN "Ok" ELSE "write"]
    ELSE [asked |-> FALSE, writes |-> <<Write(key, press)>>, ret |-> "write"]

send_input_no_press_guard(key, press, tooltip, ir) ==
    IF key.kind \in SpecialKinds
    THEN LET r == IF tooltip = "Menu" THEN ir ELSE Err(TRUE) IN
         [asked  |-> tooltip = "Menu",
          writes |-> CASE r.tag = "Ok" -> <<Write(MenuSelection(r.n), TRUE)>>
                       [] r = Err(TRUE)  -> <<Write(key, press)>>
                       [] r = Err(FALSE) -> <<>>,
          ret    |-> IF r = Err(FALSE) THEN "Ok" ELSE "write"]
    ELSE [asked |-> FALSE, writes |-> <<Write(key, press)>>, ret |-> "write"]

send_input_write_twice(key, press, tooltip, ir) ==
    IF key.kind \in SpecialKinds /\ press
    THEN LET r == IF tooltip = "Menu" THEN ir ELSE Err(TRUE) IN
         [asked  |-> tooltip = "Menu",
          writes |-> CASE r.tag = "Ok" -> <<Write(MenuSelection(r.n), TRUE)>>
                       [] r = Err(TRUE)  -> <<Write(key, press)>>
                       [] r = Err(FALSE) -> <<>>,
          ret    |-> IF r = Err(FALSE) THEN "Ok" ELSE "write"]
    ELSE [asked |-> FALSE, writes |-> <<Write(key, press), Write(key, press)>>, ret |-> "write"]

send_input(key, press, tooltip, ir) ==
    IF key.kind \in SpecialKinds /\ press
    THEN LET r == IF tooltip = "Menu" THEN ir ELSE Err(TRUE) IN
         [asked  |-> tooltip = "Menu",
          writes |-> CASE r.tag = "Ok" -> <<Write(MenuSelection(r.n), TRUE)>>
                       [] r = Err(TRUE)  -> <<Write(key, press)>>
                       [] r = Err(FALSE) -> <<>>,
          ret    |-> IF r = Err(FALSE) THEN "Ok" ELSE "write"]
    ELSE [asked |-> FALSE, writes |-> <<Write(key, press)>>, ret |-> "write"]

\* The transport (terminal/input.rs): write(key, press) encodes the key in the
\* current mode and sends the bytes.  The key of the encoder's taxonomy:
to_key(key, press) ==
    CASE key.kind = "DownArrow"     -> MkKey("Down", press, 0, <<>>)
      [] key.kind = "UpArrow"       -> MkKey("Up", press, 0, <<>>)
      [] key.kind = "MenuSelection" -> MkKey("Cmd", TRUE, 0, <<109, 48 + key.n>>)
      [] OTHER                      -> MkKey(key.kind, press, key.n, <<>>)

\* The outcomes of one tty.write: a panic of the encoder, or an io::Result
\* (the sink can fail whenever there are bytes to send).
tty_write(key, press, m) ==
    UNION {LET r == as_code(to_key(key, press), m, mods) IN
           CASE r.tag \in {"unreachable", "unimplemented"} ->
                    {[fault |-> r.tag, result |-> "panic"]}
             [] r.tag = "None" -> {[fault |-> "none", result |-> "Ok"]}
             [] OTHER -> {[fault |-> "none", result |-> io] : io \in {"Ok", "Err"}}
           : mods \in Modifiers}

NoEvent == [key |-> InKey("none", 0), press |-> FALSE, tooltip |-> "None", ir |-> Err(TRUE)]

SendInput ==
    /\ fault = "none"
    /\ nEvents < MaxEvents
    /\ \E key \in InputKeys, press \in BOOLEAN, tooltip \in Tooltips :
       \E ir \in (IF send_input(key, press, tooltip, Err(TRUE)).asked
                  THEN InteractResults ELSE {Err(TRUE)}) :
          LET call == send_input(key, press, tooltip, ir) IN
          /\ lastEvent' = [key |-> key, press |-> press, tooltip |-> tooltip, ir |-> ir]
          /\ lastWrites' = call.writes
          /\ lastAsked' = call.asked
          /\ nEvents' = nEvents + 1
          /\ nWrites' = nWrites + Len(call.writes)
          /\ IF call.writes = <<>>
             THEN lastResult' = "Ok" /\ fault' = fault
             ELSE \E o \in tty_write(call.writes[Len(call.writes)].key,
                                     call.writes[Len(call.writes)].press, mode) :
                     /\ lastResult' = o.result
                     /\ fault' = o.fault
    /\ UNCHANGED <<mode, termVars, encodeVars>>

\* set_input_mode: self.tty.set_mode(mode)
SetInputMode ==
    /\ fault = "none"
    /\ \E m \in InputMode : mode' = m
    /\ UNCHANGED <<lastEvent, lastWrites, lastAsked, lastResult, nEvents, nWrites, fault,
                   termVars, encodeVars>>

----------------------------------------------------------------------------
(* terminal/mod.rs: the active buffer and the saved stack *)

Dims == 1..MaxDim

\* CharGrid::new(width, height, scroll_x, scroll_y)
CharGrid_new(w, h, scroll_x, scroll_y) ==
    [width |-> w, height |-> h, scroll_x |-> scroll_x, scroll_y |-> scroll_y]

set_height(grid, rows) == [grid EXCEPT !.height = rows]
set_width(grid, cols)  == [grid EXCEPT !.width = cols]

\* the Terminal's fields that the buffer operations read and write
Term == [width |-> width, height |-> height, active |-> active, inactive |-> inactive]

Terminal_new(w, h) ==
    [width |-> w, height |-> h, active |-> CharGrid_new(w, h, FALSE, TRUE), inactive |-> <<>>]

push_buffer_drop_old(t, scroll_x, scroll_y) ==
    [t EXCEPT !.active = CharGrid_new(t.width, t.height, scroll_x, scroll_y),
              !.inactive = Append(t.inactive, CharGrid_new(t.width, t.height, scroll_x, scroll_y))]

push_buffer(t, scroll_x, scroll_y) ==
    [t EXCEPT !.active = CharGrid_new(t.width, t.height, scroll_x, scroll_y),
              !.inactive = Append(t.inactive, t.active)]

pop_buffer(t) ==
    IF t.inactive = <<>>
    THEN t
    ELSE [t EXCEPT !.active = t.inactive[Len(t.inactive)],
                   !.inactive = SubSeq(t.inactive, 1, Len(t.inactive) - 1)]

set_visible_height(t, rows) ==
    [t EXCEPT !.active = set_height(t.active, rows), !.height = rows]

set_visible_width_all(t, cols) ==
    [t EXCEPT !.active = set_width(t.active, cols), !.width = cols,
              !.inactive = [i \in 1..Len(t.inactive) |-> set_width(t.inactive[i], cols)]]

set_visible_width(t, cols) ==
    [t EXCEPT !.active = set_width(t.active, cols), !.width = cols]

\* install the session t computed by operation op
Becomes(t, op) ==
    /\ nOps < MaxOps
    /\ nOps' = nOps + 1
    /\ width' = t.width
    /\ height' = t.height
    /\ active' = t.active
    /\ inactive' = t.inactive
    /\ lastOp' = op
    /\ prevOp' = lastOp
    /\ pre' = Term

PushBuffer ==
    /\ \E scroll_x \in BOOLEAN, scroll_y \in BOOLEAN :
          Becomes(push_buffer(Term, scroll_x, scroll_y), "push_buffer")
    /\ pushedDims' = Append(pushedDims, <<active.width, active.height>>)
    /\ UNCHANGED <<inputVars, encodeVars>>

PopBuffer ==
    /\ Becomes(pop_buffer(Term), "pop_buffer")
    /\ pushedDims' = IF pushedDims = <<>> THEN pushedDims
                     ELSE SubSeq(pushedDims, 1, Len(pushedDims) - 1)
    /\ UNCHANGED <<inputVars, encodeVars>>

SetVisibleHeight ==
    /\ \E rows \in Dims : Becomes(set_visible_height(Term, rows), "set_visible_height")
    /\ UNCHANGED <<pushedDims, inputVars, encodeVars>>

SetVisibleWidth ==
    /\ \E cols \in Dims : Becomes(set_visible_width(Term, cols), "set_visible_width")
    /\ UNCHANGED <<pushedDims, inputVars, encodeVars>>

----------------------------------------------------------------------------
(* one evaluation of Key::as_code *)

AsCode ==
    /\ out = Pending
    /\ out' = as_code(in_key, in_mode, in_mods)
    /\ UNCHANGED <<in_key, in_mode, in_mods, termVars, inputVars>>

----------------------------------------------------------------------------
(* Specifications *)

SessionInit(w, h) ==
    /\ width = w /\ height = h
    /\ active = Terminal_new(w, h).active
    /\ inactive = Terminal_new(w, h).inactive
    /\ mode = "Ansi"
    /\ lastOp = "new" /\ prevOp = "new"
    /\ pre = Terminal_new(w, h)
    /\ nOps = 0
    /\ pushedDims = <<>>
    /\ lastEvent = NoEvent
    /\ lastWrites = <<>>
    /\ lastAsked = FALSE
    /\ lastResult = "Ok"
    /\ nEvents = 0 /\ nWrites = 0
    /\ fault = "none"

EncodeIdle ==
    /\ in_key = MkKey("Cmd", TRUE, 0, <<>>)
    /\ in_mode = "Ansi"
    /\ in_mods = Modifiers_new
    /\ out = Pending

\* input dispatch, on the session after Terminal::new(1, 1, tty)
Init == SessionInit(1, 1) /\ EncodeIdle
Next == SendInput \/ SetInputMode
Spec == Init /\ [][Next]_vars

\* buffer lifecycle, on the session after Terminal::new(w, h, tty)
InitBuffer == (\E w \in Dims, h \in Dims : SessionInit(w, h)) /\ EncodeIdle
NextBuffer == PushBuffer \/ PopBuffer \/ SetVisibleHeight \/ SetVisibleWidth
SpecBuffer == InitBuffer /\ [][NextBuffer]_vars

\* the encoder on every key, mode and modifier setting
InitEncode ==
    /\ SessionInit(1, 1)
    /\ in_key \in Key
    /\ in_mode \in InputMode
    /\ in_mods \in Modifiers
    /\ out = Pending

NextEncode == AsCode
SpecEncode == InitEncode /\ [][NextEncode]_vars

----------------------------------------------------------------------------
(* Properties of send_input (Spec) *)

Sent == nEvents > 0

\* C1: one send_input call invokes the transport's write at most once, so
\* the writes never outnumber the events, and a failed write is not repeated.
C1_AtMostOneWritePerEvent ==
    /\ Len(lastWrites) <= 1
    /\ nWrites <= nEvents
    /\ (lastResult = "Err" => Len(lastWrites) = 1)

C1_FailedWriteSeen ==
    /\ nEvents = 2
    /\ nWrites = 2
    /\ lastResult = "Err"
    /\ Len(lastWrites) = 1

\* C2: a press of Down, Up or Enter on a menu whose interact answers Ok(n)
\* writes MenuSelection(n) as a press, once, and never the key itself.
C2_SelectionReplacesKey ==
    (/\ Sent
     /\ lastEvent.key.kind \in SpecialKinds
     /\ lastEvent.press
     /\ lastEvent.tooltip = "Menu"
     /\ lastEvent.ir.tag = "Ok")
    => lastWrites = <<Write(MenuSelection(lastEvent.ir.n), TRUE)>>

C2_DownSelectsEntry ==
    /\ Sent
    /\ lastEvent.key.kind = "DownArrow"
    /\ lastEvent.press
    /\ lastEvent.tooltip = "Menu"
    /\ lastEvent.ir = Ok(1)
    /\ lastAsked
    /\ lastWrites = <<Write(MenuSelection(1), TRUE)>>

\* C3: with no menu at the cursor, or a key that is not a press of Down, Up
\* or Enter, or a menu answering Err(true), the one write carries the
\* original key and press flag; interact is not called for a release or for
\* another key.
C3_ForwardedUnchanged ==
    /\ (/\ Sent
        /\ \/ lastEvent.tooltip /= "Menu"
           \/ lastEvent.key.kind \notin SpecialKinds
           \/ ~lastEvent.press
           \/ lastEvent.ir = Err(TRUE))
       => lastWrites = <<Write(lastEvent.key, lastEvent.press)>>
    /\ (Sent /\ (~lastEvent.press \/ lastEvent.key.kind \notin SpecialKinds))
       => ~lastAsked

C3_ReleaseOverMenuForwarded ==
    /\ Sent
    /\ lastEvent.key.kind = "DownArrow"
    /\ ~lastEvent.press
    /\ lastEvent.tooltip = "Menu"
    /\ ~lastAsked
    /\ lastWrites = <<Write(InKey("DownArrow", 0), FALSE)>>

\* C6: no bare modifier key reaches the compatible encoder: its
\* unreachable!() branch never runs.
C6_ModifierBranchNeverRuns == fault /= "unreachable"

----------------------------------------------------------------------------
(* Properties of the buffer operations (SpecBuffer) *)

\* C4: push_buffer then pop_buffer restores the active buffer and the saved
\* stack; pop takes the most recently saved buffer; pop on an empty stack
\* changes nothing.
C4_PushPopRestores ==
    [][/\ (lastOp = "push_buffer" /\ lastOp' = "pop_buffer")
          => (active' = pre.active /\ inactive' = pre.inactive)
       /\ (lastOp' = "pop_buffer" /\ inactive /= <<>>)
          => (/\ active' = inactive[Len(inactive)]
              /\ inactive' = SubSeq(inactive, 1, Len(inactive) - 1))
       /\ (lastOp' = "pop_buffer" /\ inactive = <<>>)
          => UNCHANGED <<active, inactive, width, height>>]_vars

C4_PoppedAfterPush ==
    /\ prevOp = "push_buffer"
    /\ lastOp = "pop_buffer"
    /\ Len(inactive) = 1
    /\ active /= inactive[1]

\* C5: a resize changes the dimension of the active buffer and the recorded
\* dimension only: the saved stack is the one before the resize, and every
\* saved buffer has the dimensions it was pushed with.
C5_ResizeLeavesSaved ==
    /\ lastOp \in {"set_visible_width", "set_visible_height"}
       => /\ inactive = pre.inactive
          /\ active.scroll_x = pre.active.scroll_x
          /\ active.scroll_y = pre.active.scroll_y
    /\ lastOp = "set_visible_width"
       => (height = pre.height /\ active.height = pre.active.height
           /\ active.width = width)
    /\ lastOp = "set_visible_height"
       => (width = pre.width /\ active.width = pre.active.width
           /\ active.height = height)
    /\ Len(pushedDims) = Len(inactive)
    /\ \A i \in 1..Len(inactive) :
          <<inactive[i].width, inactive[i].height>> = pushedDims[i]

C5_ResizedOverSaved ==
    /\ lastOp = "set_visible_width"
    /\ Len(inactive) = 2
    /\ width /= pre.width
    /\ inactive[1].width /= width
    /\ inactive[2].width /= width

\* C10: the active buffer always has the recorded width and height.
C10_ActiveHasRecordedDims ==
    active.width = width /\ active.height = height

----------------------------------------------------------------------------
(* Properties of as_code (SpecEncode) *)

Encoded == out /= Pending

Compatible == in_mode \in {"Ansi", "Application"}

ShiftOrCaps == in_mods.shift \/ in_mods.caps

\* the modifier parameter of a cursor-key sequence: 2..8
ModParam ==
    1 + (IF ShiftOrCaps THEN 1 ELSE 0) + (IF in_mods.alt THEN 2 ELSE 0)
      + (IF in_mods.ctrl THEN 4 ELSE 0)

Terminator(kind) ==
    CASE kind = "Up" -> 65 [] kind = "Down" -> 66 [] kind = "Right" -> 67 [] kind = "Left" -> 68

\* C7: a press of Up, Down, Right, Left encodes as ESC [ T (Ansi) or
\* ESC O T (Application) without modifiers, and as ESC [ 1 ; n T, n = 2..8,
\* in both modes for the seven other (shift or caps, ctrl, alt) triplets.
C7_CursorKeyTable ==
    (Encoded /\ Compatible /\ in_key.press
        /\ in_key.kind \in {"Up", "Down", "Right", "Left"})
    => out = Some(IF ModParam = 1
                  THEN <<27, IF in_mode = "Ansi" THEN 91 ELSE 79, Terminator(in_key.kind)>>
                  ELSE <<27, 91, 49, 59, 48 + ModParam, Terminator(in_key.kind)>>)

C7_CapsLeftApplication ==
    /\ in_key = MkKey("Left", TRUE, 0, <<>>)
    /\ in_mode = "Application"
    /\ in_mods = [shift |-> FALSE, caps |-> TRUE, ctrl |-> FALSE, alt |-> FALSE]
    /\ out = Some(<<27, 91, 49, 59, 50, 68>>)

\* c & 0x1F for a c of 0x40..0x7F
Low5(c) == IF c < 96 THEN c - 64 ELSE c - 96

\* the encoding of a character press whose ctrl range is lo..hi
CharExpected(lo, hi) ==
    LET c == in_key.c
        inRange == c >= lo /\ c <= hi
    IN CASE ~in_mods.ctrl /\ ~in_mods.alt -> Some(Utf8(c))
         [] ~in_mods.ctrl /\ in_mods.alt  -> Some(<<27>> \o Utf8(c))
         [] in_mods.ctrl /\ ~in_mods.alt  -> IF inRange THEN Some(<<Low5(c)>>) ELSE None
         [] in_mods.ctrl /\ in_mods.alt   -> IF inRange THEN Some(<<27, Low5(c)>>) ELSE None

CharPress == Encoded /\ Compatible /\ in_key.kind = "Char" /\ in_key.press

\* C8 as stated: the ctrl range is '@' (0x40) up to but excluding DEL (0x7F).
C8_CtrlRangeExcludesDel == CharPress => out = CharExpected(64, 126)

\* C8 amended: the ctrl range is '@' (0x40) up to and including DEL (0x7F);
\* c alone, ESC c under alt, c & 0x1F under ctrl, ESC (c & 0x1F) under both;
\* shift and caps change nothing.
C8_CtrlRangeIncludesDel == CharPress => out = CharExpected(64, 127)

C8_CtrlDel ==
    /\ CharPress
    /\ in_key.c = 127
    /\ in_mods.ctrl /\ ~in_mods.alt /\ in_mods.caps
    /\ out = Some(<<31>>)

EscCount(bytes) == Cardinality({i \in DOMAIN bytes : bytes[i] = 27})

\* 7-bit bytes, no NUL, at most one ESC and that one first
Clean(bytes) ==
    /\ \A i \in DOMAIN bytes : bytes[i] >= 1 /\ bytes[i] <= 127
    /\ EscCount(bytes) <= 1
    /\ \A i \in DOMAIN bytes : bytes[i] = 27 => i = 1

\* C9 as stated: every sequence as_code returns in Ansi or Application mode
\* is 7-bit ASCII, has no NUL and at most one ESC, its first byte.
C9_AllSequencesClean ==
    (Encoded /\ Compatible /\ out.tag = "Some") => Clean(out.bytes)

\* the character a Char press emits: c, or c & 0x1F under ctrl
Emitted == IF in_mods.ctrl THEN in_key.c % 32 ELSE in_key.c

\* C9 amended: the sequences of the directional, Home/End and tilde keys are
\* 7-bit ASCII without NUL and start with their only ESC; the sequence of an
\* ASCII character press is 7-bit ASCII, and has no NUL and at most one ESC,
\* its first byte, when the character emitted is neither NUL nor ESC.
C9_KeySequencesClean ==
    (Encoded /\ Compatible /\ out.tag = "Some")
    => /\ in_key.kind \notin {"Char", "Cmd"}
          => (Clean(out.bytes) /\ out.bytes[1] = 27 /\ EscCount(out.bytes) = 1)
       /\ (in_key.kind = "Char" /\ in_key.c < 128)
          => \A i \in DOMAIN out.bytes : out.bytes[i] <= 127
       /\ (in_key.kind = "Char" /\ in_key.c < 128 /\ Emitted \notin {0, 27})
          => Clean(out.bytes)

C9_ApplicationDownSeen ==
    /\ in_key = MkKey("Down", TRUE, 0, <<>>)
    /\ in_mode = "Application"
    /\ in_mods = Modifiers_new
    /\ out = Some(<<27, 79, 66>>)

====
